---- MODULE Spec2Model ----
(***************************************************************************)
(* A model of the mcp-client dispatcher (src/src/index.ts and its earlier  *)
(* variants under src/unnamed/): one orchestrated request, main ->         *)
(* chooseTool -> executeTool -> callMcpTool, with the backends, the        *)
(* classifier and the process environment as nondeterministic inputs.      *)
(* Every action is one continuation of the async program: the code that    *)
(* runs from one `await` to the next.                                      *)
(***************************************************************************)
EXTENDS Integers, Sequences, FiniteSets, TLC

VARIABLES
    cfg,              \* cfg.mcpServers: the backend keys, in declaration order
    env,              \* process.env.DEFAULT_PATH ("" when unset)
    pc,               \* the await the request is suspended at
    caller,           \* which function awaits getToolDefinitions
    bi,               \* position of the for-of loop of getToolDefinitions
    toolDefinitions,  \* the local catalog of the running getToolDefinitions / its caller
    sessions,         \* the transports whose subprocess is running
    nextId,           \* identity of the next transport object
    curId,            \* the transport the running function holds
    opens,            \* history: every Session opened, with who opened it and when
    tierIdx,          \* position of the for-of loop over MODEL_CANDIDATES
    consulted,        \* history: the classifier calls made, in order, with their outcome
    warnings,         \* history: the console.warn fallback records
    raw,              \* the tool call the classifier returned, as received
    selection,        \* what chooseTool returned
    invBackend,       \* def.serverKey resolved by callMcpTool
    callCount,        \* history: number of client.callTool requests issued
    transportCalls,   \* history: number of transport round trips (listTools, callTool)
    result,           \* what callMcpTool returned
    error,            \* the error main().catch received ("none" while there is none)
    failedIn,         \* the function whose code raised it
    exitCode,         \* process exit status (-1 while running)
    listed,           \* history: what each backend listed in the running aggregation pass
    aggRuns,          \* history: number of aggregation passes that returned a catalog
    presentedOwner,   \* history: the backend that owned the selected name in the catalog
                      \*          the classifier was shown
    response,         \* history: the content sequence callTool answered with
    nWhich, nName, nRaw, nOut1, nOut2, nStage   \* the default-filling step in isolation

vars == <<cfg, env, pc, caller, bi, toolDefinitions, sessions, nextId, curId, opens,
          tierIdx, consulted, warnings, raw, selection, invBackend, callCount,
          transportCalls, result, error, failedIn, exitCode,
          listed, aggRuns, presentedOwner, response,
          nWhich, nName, nRaw, nOut1, nOut2, nStage>>

histVars == <<listed, aggRuns, presentedOwner, response>>

normVars == <<nWhich, nName, nRaw, nOut1, nOut2, nStage>>

(***************************************************************************)
(* Bounds of the model.                                                    *)
(***************************************************************************)
MaxBackends == 2      \* backends in config.json
MaxTools == 2         \* capabilities one backend lists
MaxContent == 2       \* segments in one callTool response
MaxCalls == 3         \* cap of the callTool counter

(***************************************************************************)
(* Program constants.                                                      *)
(***************************************************************************)
MODEL_CANDIDATES == <<"gpt-3.5-turbo-0125", "gpt-4o-release">>
BuiltinDefaultPath == "/Users/honjo2/Desktop"
DesktopPath == "/Users/honjo2/Desktop"
DefaultSource == "/Users/honjo2/Desktop/chromebackup"
DefaultDestination == "/Users/honjo2/Desktop/chromebackup2"

(***************************************************************************)
(* Input domains.                                                          *)
(***************************************************************************)
ToolNames == {"list_directory", "move_file"}
NormNames == ToolNames \cup {"read_file"}
EnvValues == {"", "/home/user"}
ArgKeys == {"path", "pattern"}
ArgValues == {"", "/tmp"}
NormKeys == {"path", "source", "destination"}

\* Every JSON object over keys ks with string values from vs.
Objects(ks, vs) == UNION {[d -> vs] : d \in SUBSET ks}

EmptyObject == [k \in {} |-> ""]

(***************************************************************************)
(* JavaScript values that flow through call.function.arguments: a string   *)
(* holding JSON text (parseable or not), or an object.                     *)
(***************************************************************************)
JsonText(o) == [kind |-> "string", ok |-> TRUE, obj |-> o]
Malformed == [kind |-> "string", ok |-> FALSE, obj |-> EmptyObject]
JsObject(o) == [kind |-> "object", ok |-> TRUE, obj |-> o]

TypeOf(v) == v.kind

\* JSON.parse throws on text that is not JSON, and on an object (it is
\* coerced to the text "[object Object]").
JSONparseThrows(v) == ~(v.kind = "string" /\ v.ok)
JSONparse(v) == v.obj
JSONstringify(o) == JsonText(o)

\* args.k = x
Put(o, k, x) == [j \in DOMAIN o \cup {k} |-> IF j = k THEN x ELSE o[j]]

\* v.k, where a string has no such property and "" is falsy.
Truthy(v, k) == v.kind = "object" /\ k \in DOMAIN v.obj /\ v.obj[k] # ""

(***************************************************************************)
(* The default-filling step of chooseTool, src/src/index.ts.               *)
(***************************************************************************)
\* process.env.DEFAULT_PATH || '/Users/honjo2/Desktop'
ConfiguredDefault(e) == IF e # "" THEN e ELSE BuiltinDefaultPath

\* Whether lines 116-126 throw on the arguments the classifier returned.
ChooseToolArgsThrows(arguments) == JSONparseThrows(arguments)

\* A default rule that also treats the configured default as "no path given"
\* and strips it.
ChooseToolArgsStripping(name, arguments, defaultPath) ==
    LET args == JSONparse(arguments)
    IN  IF Cardinality(DOMAIN args) = 0
        THEN Put(args, "path", defaultPath)
        ELSE IF "path" \in DOMAIN args /\ args["path"] = defaultPath
             THEN [k \in DOMAIN args \ {"path"} |-> args[k]]
             ELSE args

\* The arguments chooseTool returns (lines 116-126), for arguments that parse.
ChooseToolArgs(name, arguments, defaultPath) ==
    IF TypeOf(arguments) = "string"
    THEN LET args == JSONparse(arguments)
             filled == IF Cardinality(DOMAIN args) = 0
                       THEN Put(args, "path", defaultPath)
                       ELSE args
         IN  JSONparse(JSONstringify(filled))
    ELSE JSONparse(arguments)

(***************************************************************************)
(* The default-filling step of chooseTool in the filesystem variant        *)
(* (src/unnamed/part_001, lines 116-144).                                  *)
(***************************************************************************)
\* typeof a === 'object' && a ? { ...a } : {}
SpreadOrEmpty(arguments) ==
    IF TypeOf(arguments) = "object" THEN arguments.obj ELSE EmptyObject

\* if (!args.k) args.k = x
PutIfFalsy(o, k, x) == IF k \in DOMAIN o /\ o[k] # "" THEN o ELSE Put(o, k, x)

\* call.function.arguments after lines 116-140.
VariantArguments(name, arguments) ==
    IF name = "list_directory" /\ ~Truthy(arguments, "path")
    THEN JSONstringify(Put(SpreadOrEmpty(arguments), "path", DesktopPath))
    ELSE IF name = "move_file"
         THEN JSONstringify(
                  PutIfFalsy(PutIfFalsy(SpreadOrEmpty(arguments), "source", DefaultSource),
                             "destination", DefaultDestination))
         ELSE arguments

VariantArgsThrows(name, arguments) == JSONparseThrows(VariantArguments(name, arguments))

\* The arguments the variant's chooseTool returns (line 143).
VariantArgs(name, arguments) == JSONparse(VariantArguments(name, arguments))

(***************************************************************************)
(* Backends and their answers.                                             *)
(***************************************************************************)
\* The configurations: backend keys 1..n in declaration order.
Configs == {[i \in 1..n |-> i] : n \in 0..MaxBackends}

\* What one backend may answer to listTools.
Listings == UNION {[1..n -> ToolNames] : n \in 0..MaxTools}

\* Text as a sequence of characters.
Texts == {<<" ", "a", " ">>, <<" ">>, <<"a", " ", "b", " ">>}
Segments == {[type |-> "text", text |-> t] : t \in Texts}
                \cup {[type |-> "image", text |-> <<>>]}
Contents == UNION {[1..n -> Segments] : n \in 0..MaxContent}

RECURSIVE TrimStart(_)
TrimStart(t) == IF t # <<>> /\ Head(t) = " " THEN TrimStart(Tail(t)) ELSE t

RECURSIVE TrimEnd(_)
TrimEnd(t) ==
    IF t # <<>> /\ t[Len(t)] = " " THEN TrimEnd(SubSeq(t, 1, Len(t) - 1)) ELSE t

\* Only the leading whitespace removed.
TrimLeadingOnly(t) == TrimStart(t)

\* String.prototype.trim
Trim(t) == TrimEnd(TrimStart(t))

\* parsed.content.filter(c => c.type === 'text').map(c => c.text.trim())
RECURSIVE TextSegments(_)
TextSegments(content) ==
    IF content = <<>> THEN <<>>
    ELSE IF Head(content).type = "text"
         THEN <<Trim(Head(content).text)>> \o TextSegments(Tail(content))
         ELSE TextSegments(Tail(content))

\* The entries tagged with the zero-based position of the backend.
TagToolsZeroBased(tools, serverKey) ==
    [i \in 1..Len(tools) |->
        [name |-> tools[i], serverKey |-> serverKey - 1, toolName |-> tools[i]]]

\* tools.map(tool => ({name: tool.name, ..., serverKey, toolName: tool.name}))
TagTools(tools, serverKey) ==
    [i \in 1..Len(tools) |->
        [name |-> tools[i], serverKey |-> serverKey, toolName |-> tools[i]]]

\* toolDefinitions.unshift(...entries)
PushFront(defs, entries) == entries \o defs

\* toolDefinitions.push(...entries)
PushAll(defs, entries) == defs \o entries

\* The index of the last match, 0 if none.
FindLastIndex(defs, name) ==
    IF \E i \in 1..Len(defs) : defs[i].name = name
    THEN CHOOSE i \in 1..Len(defs) :
            /\ defs[i].name = name
            /\ \A j \in (i + 1)..Len(defs) : defs[j].name # name
    ELSE 0

\* toolDefinitions.find(d => d.name === name): the index of the first match, 0 if none.
FindIndex(defs, name) ==
    IF \E i \in 1..Len(defs) : defs[i].name = name
    THEN CHOOSE i \in 1..Len(defs) :
            /\ defs[i].name = name
            /\ \A j \in 1..(i - 1) : defs[j].name # name
    ELSE 0

NoCall == [name |-> "", arguments |-> Malformed]
NoSelection == [name |-> "", arguments |-> EmptyObject]

(***************************************************************************)
(* Control decisions of the code, one operator each.                       *)
(***************************************************************************)
\* transport.close() ends the subprocess of that transport.
TransportLeftOpen(ss, id) == ss
TransportClose(ss, id) == {s \in ss : s.id # id}

\* `if (call) { ... return }`: the loop goes on only without a tool call.
TierAlwaysFallsBack(call) == TRUE
TierFallsBack(call) == call = NoCall

\* console.warn(`model=${model} ...`) after a tier without a tool call.
MissRecordDropped(ws, model) == ws
MissRecord(ws, model) == Append(ws, model)

\* for (const model of MODEL_CANDIDATES): the loop ends after the last tier.
TiersExhaustedEarly(i) == i >= Len(MODEL_CANDIDATES)
TiersExhausted(i) == i > Len(MODEL_CANDIDATES)

\* A rejected client.listTools is not caught in getToolDefinitions or its callers:
\* the pass ends there and the error reaches main().catch.
ListToolsSkipped == "agg_close"
ListToolsRejected == "failed"

\* A rejected client.callTool is not caught in callMcpTool, executeTool or main:
\* it reaches main().catch.
CallToolRetried == "call"
CallToolRejected == "failed"

(***************************************************************************)
(* The orchestrated request: src/src/index.ts.                             *)
(***************************************************************************)
NormOff ==
    /\ nWhich = "off" /\ nName = "" /\ nRaw = Malformed
    /\ nOut1 = EmptyObject /\ nOut2 = EmptyObject /\ nStage = "off"

Init ==
    /\ cfg \in Configs
    /\ env \in EnvValues
    /\ pc = "main"
    /\ caller = "none"
    /\ bi = 0
    /\ toolDefinitions = <<>>
    /\ sessions = {}
    /\ nextId = 1
    /\ curId = 0
    /\ opens = <<>>
    /\ tierIdx = 0
    /\ consulted = <<>>
    /\ warnings = <<>>
    /\ raw = NoCall
    /\ selection = NoSelection
    /\ invBackend = 0
    /\ callCount = 0
    /\ transportCalls = 0
    /\ result = <<>>
    /\ error = "none"
    /\ failedIn = "none"
    /\ exitCode = -1
    /\ listed = <<>>
    /\ aggRuns = 0
    /\ presentedOwner = 0
    /\ response = <<>>
    /\ NormOff

\* An exception leaves every frame up to main().catch: nothing catches it earlier.
Throw(err, fn) ==
    /\ pc' = "failed"
    /\ error' = err
    /\ failedIn' = fn

\* main calls chooseTool, which calls getToolDefinitions.
Main ==
    /\ pc = "main"
    /\ pc' = "agg_connect"
    /\ caller' = "chooseTool"
    /\ bi' = 1
    /\ toolDefinitions' = <<>>
    /\ listed' = <<>>
    /\ UNCHANGED <<cfg, env, sessions, nextId, curId, opens, tierIdx, consulted,
                   warnings, raw, selection, invBackend, callCount, transportCalls,
                   result, error, failedIn, exitCode, normVars, aggRuns, presentedOwner, response>>

\* client.connect(transport) resolved: the subprocess runs; listTools is awaited.
AggConnectOk ==
    /\ pc = "agg_connect"
    /\ bi <= Len(cfg)
    /\ sessions' = sessions \cup
            {[id |-> nextId, owner |-> "aggregate", backend |-> cfg[bi]]}
    /\ opens' = Append(opens, [owner |-> "aggregate", backend |-> cfg[bi],
                               during |-> caller, tiers |-> Len(consulted)])
    /\ curId' = nextId
    /\ nextId' = nextId + 1
    /\ pc' = "agg_list"
    /\ UNCHANGED <<cfg, env, caller, bi, toolDefinitions, tierIdx, consulted,
                   warnings, raw, selection, invBackend, callCount, transportCalls,
                   result, error, failedIn, exitCode, normVars, histVars>>

\* client.connect(transport) rejected: no Session came to be.
AggConnectFail ==
    /\ pc = "agg_connect"
    /\ bi <= Len(cfg)
    /\ Throw("TransportError", "getToolDefinitions")
    /\ UNCHANGED <<cfg, env, caller, bi, toolDefinitions, sessions, nextId, curId,
                   opens, tierIdx, consulted, warnings, raw, selection, invBackend,
                   callCount, transportCalls, result, exitCode, normVars, histVars>>

\* listTools answered: the tools are tagged and pushed; transport.close() is awaited.
AggListOk(tools) ==
    /\ pc = "agg_list"
    /\ transportCalls' = transportCalls + 1
    /\ toolDefinitions' = PushAll(toolDefinitions, TagTools(tools, cfg[bi]))
    /\ listed' = Append(listed, [serverKey |-> cfg[bi], tools |-> tools])
    /\ pc' = "agg_close"
    /\ UNCHANGED <<cfg, env, caller, bi, sessions, nextId, curId, opens, tierIdx,
                   consulted, warnings, raw, selection, invBackend, callCount,
                   result, error, failedIn, exitCode, normVars, aggRuns, presentedOwner, response>>

\* listTools rejected: the exception leaves getToolDefinitions at line 44.
AggListFail ==
    /\ pc = "agg_list"
    /\ transportCalls' = transportCalls + 1
    /\ pc' = ListToolsRejected
    /\ error' = "TransportError"
    /\ failedIn' = "getToolDefinitions"
    /\ UNCHANGED <<cfg, env, caller, bi, toolDefinitions, sessions, nextId, curId,
                   opens, tierIdx, consulted, warnings, raw, selection, invBackend,
                   callCount, result, exitCode, normVars, histVars>>

\* transport.close() resolved: on to the next backend.
AggClose ==
    /\ pc = "agg_close"
    /\ sessions' = TransportClose(sessions, curId)
    /\ bi' = bi + 1
    /\ pc' = "agg_connect"
    /\ UNCHANGED <<cfg, env, caller, toolDefinitions, nextId, curId, opens, tierIdx,
                   consulted, warnings, raw, selection, invBackend, callCount,
                   transportCalls, result, error, failedIn, exitCode, normVars, histVars>>

\* The loop is over: getToolDefinitions returns the catalog to its caller, which
\* goes on to its first await (the first classifier call, or the lookup).
AggReturn ==
    /\ pc = "agg_connect"
    /\ bi > Len(cfg)
    /\ aggRuns' = aggRuns + 1
    /\ IF caller = "chooseTool"
       THEN pc' = "tier" /\ tierIdx' = 1
       ELSE pc' = "resolve" /\ tierIdx' = tierIdx
    /\ UNCHANGED <<cfg, env, caller, bi, toolDefinitions, sessions, nextId, curId,
                   opens, consulted, warnings, raw, selection, invBackend, callCount,
                   transportCalls, result, error, failedIn, exitCode, normVars, listed, presentedOwner, response>>

\* The backend whose entry carries `name` first in the catalog the classifier was
\* shown (0 when the catalog has no such entry).
PresentedOwner(defs, name) ==
    IF \E i \in 1..Len(defs) : defs[i].name = name
    THEN LET i == CHOOSE j \in 1..Len(defs) :
                      /\ defs[j].name = name
                      /\ \A k \in 1..(j - 1) : defs[k].name # name
         IN  defs[i].serverKey
    ELSE 0

\* The classifier answered tier tierIdx with `call` (NoCall: no tool call).
TierRespond(call) ==
    /\ pc = "tier"
    /\ consulted' = Append(consulted,
            [tier |-> tierIdx, model |-> MODEL_CANDIDATES[tierIdx],
             outcome |-> IF call = NoCall THEN "miss" ELSE "call"])
    /\ IF TierFallsBack(call)
       THEN /\ warnings' = MissRecord(warnings, MODEL_CANDIDATES[tierIdx])
            /\ tierIdx' = tierIdx + 1
            /\ IF TiersExhausted(tierIdx + 1)
               THEN Throw("NoTierProduced", "chooseTool")
               ELSE UNCHANGED <<pc, error, failedIn>>
            /\ UNCHANGED <<raw, selection, toolDefinitions, listed, presentedOwner>>
       ELSE /\ raw' = call
            /\ IF ChooseToolArgsThrows(call.arguments)
               THEN /\ Throw("SyntaxError", "chooseTool")
                    /\ UNCHANGED <<selection, toolDefinitions, listed, presentedOwner>>
               ELSE /\ selection' =
                           [name |-> call.name,
                            arguments |-> ChooseToolArgs(call.name, call.arguments,
                                                         ConfiguredDefault(env))]
                    /\ presentedOwner' = PresentedOwner(toolDefinitions, call.name)
                    /\ toolDefinitions' = <<>>     \* chooseTool's local goes out of scope
                    /\ listed' = <<>>
                    /\ pc' = "execute"
                    /\ UNCHANGED <<error, failedIn>>
            /\ UNCHANGED <<warnings, tierIdx>>
    /\ UNCHANGED <<cfg, env, caller, bi, sessions, nextId, curId, opens, invBackend,
                   callCount, transportCalls, result, exitCode, normVars, aggRuns,
                   response>>

TierMiss == TierRespond(NoCall)

\* The classifier picks among the tools the request offered it.
TierCall(name, arguments) ==
    /\ \E i \in 1..Len(toolDefinitions) : toolDefinitions[i].name = name
    /\ TierRespond([name |-> name, arguments |-> arguments])

\* openai.chat.completions.create rejected.
TierError ==
    /\ pc = "tier"
    /\ consulted' = Append(consulted,
            [tier |-> tierIdx, model |-> MODEL_CANDIDATES[tierIdx], outcome |-> "error"])
    /\ Throw("ClassifierError", "chooseTool")
    /\ UNCHANGED <<cfg, env, caller, bi, toolDefinitions, sessions, nextId, curId,
                   opens, tierIdx, warnings, raw, selection, invBackend, callCount,
                   transportCalls, result, exitCode, normVars, histVars>>

\* main calls executeTool, which calls callMcpTool, which calls getToolDefinitions.
ExecuteTool ==
    /\ pc = "execute"
    /\ pc' = "agg_connect"
    /\ caller' = "callMcpTool"
    /\ bi' = 1
    /\ toolDefinitions' = <<>>
    /\ listed' = <<>>
    /\ UNCHANGED <<cfg, env, sessions, nextId, curId, opens, tierIdx, consulted,
                   warnings, raw, selection, invBackend, callCount, transportCalls,
                   result, error, failedIn, exitCode, normVars, aggRuns, presentedOwner, response>>

\* callMcpTool lines 143-154: find the definition, look its server up, connect.
Resolve ==
    /\ pc = "resolve"
    /\ LET i == FindIndex(toolDefinitions, selection.name)
       IN  IF i = 0
           THEN /\ Throw("TypeError", "callMcpTool")
                /\ UNCHANGED invBackend
           ELSE IF \A j \in 1..Len(cfg) : cfg[j] # toolDefinitions[i].serverKey
                THEN /\ Throw("ServerConfigMissing", "callMcpTool")
                     /\ UNCHANGED invBackend
                ELSE /\ invBackend' = toolDefinitions[i].serverKey
                     /\ pc' = "inv_connect"
                     /\ UNCHANGED <<error, failedIn>>
    /\ UNCHANGED <<cfg, env, caller, bi, toolDefinitions, sessions, nextId, curId,
                   opens, tierIdx, consulted, warnings, raw, selection, callCount,
                   transportCalls, result, exitCode, normVars, histVars>>

\* client.connect(transport) resolved in callMcpTool: callTool is awaited.
InvConnectOk ==
    /\ pc = "inv_connect"
    /\ sessions' = sessions \cup
            {[id |-> nextId, owner |-> "invoke", backend |-> invBackend]}
    /\ opens' = Append(opens, [owner |-> "invoke", backend |-> invBackend,
                               during |-> caller, tiers |-> Len(consulted)])
    /\ curId' = nextId
    /\ nextId' = nextId + 1
    /\ pc' = "call"
    /\ toolDefinitions' = <<>>      \* not read after the lookup
    /\ listed' = <<>>
    /\ UNCHANGED <<cfg, env, caller, bi, tierIdx, consulted,
                   warnings, raw, selection, invBackend, callCount, transportCalls,
                   result, error, failedIn, exitCode, normVars, aggRuns,
                   presentedOwner, response>>

InvConnectFail ==
    /\ pc = "inv_connect"
    /\ Throw("TransportError", "callMcpTool")
    /\ toolDefinitions' = <<>>
    /\ listed' = <<>>
    /\ UNCHANGED <<cfg, env, caller, bi, sessions, nextId, curId,
                   opens, tierIdx, consulted, warnings, raw, selection, invBackend,
                   callCount, transportCalls, result, exitCode, normVars, aggRuns,
                   presentedOwner, response>>

\* callTool answered with a valid envelope: the text segments are returned,
\* executeTool prints them and main returns.
CallToolOk(content) ==
    /\ pc = "call"
    /\ callCount < MaxCalls
    /\ callCount' = callCount + 1
    /\ transportCalls' = transportCalls + 1
    /\ response' = content
    /\ result' = TextSegments(content)
    /\ pc' = "returned"
    /\ UNCHANGED <<cfg, env, caller, bi, toolDefinitions, sessions, nextId, curId,
                   opens, tierIdx, consulted, warnings, raw, selection, invBackend,
                   error, failedIn, exitCode, normVars, listed, aggRuns,
                   presentedOwner>>

\* callTool answered with an envelope CallToolResultSchema.parse rejects.
CallToolInvalid ==
    /\ pc = "call"
    /\ callCount < MaxCalls
    /\ callCount' = callCount + 1
    /\ transportCalls' = transportCalls + 1
    /\ Throw("SchemaMismatch", "callMcpTool")
    /\ UNCHANGED <<cfg, env, caller, bi, toolDefinitions, sessions, nextId, curId,
                   opens, tierIdx, consulted, warnings, raw, selection, invBackend,
                   result, exitCode, normVars, histVars>>

\* callTool rejected.
CallToolFail ==
    /\ pc = "call"
    /\ callCount < MaxCalls
    /\ callCount' = callCount + 1
    /\ transportCalls' = transportCalls + 1
    /\ pc' = CallToolRejected
    /\ error' = "TransportError"
    /\ failedIn' = "callMcpTool"
    /\ UNCHANGED <<cfg, env, caller, bi, toolDefinitions, sessions, nextId, curId,
                   opens, tierIdx, consulted, warnings, raw, selection, invBackend,
                   result, exitCode, normVars, histVars>>

\* The process ends: after a failure main().catch calls process.exit(1); after
\* main has returned node exits with status 0 once nothing keeps its event loop
\* alive, and the subprocess of an open transport does.
ProcessExit ==
    /\ pc \in {"failed", "returned"}
    /\ IF pc = "failed"
       THEN exitCode' = 1
       ELSE sessions = {} /\ exitCode' = 0
    /\ pc' = "exited"
    /\ UNCHANGED <<cfg, env, caller, bi, toolDefinitions, sessions, nextId, curId,
                   opens, tierIdx, consulted, warnings, raw, selection, invBackend,
                   callCount, transportCalls, result, error, failedIn, normVars, histVars>>

\* What the classifier may put in call.function.arguments: JSON text, or text
\* that is not JSON.  Lines 116-126 read the keys of the object, never a value.
ClassifierArguments == {JsonText(o) : o \in Objects(ArgKeys, {"/tmp"})} \cup {Malformed}

Next ==
    \/ Main
    \/ AggConnectOk
    \/ AggConnectFail
    \/ \E tools \in Listings : AggListOk(tools)
    \/ AggListFail
    \/ AggClose
    \/ AggReturn
    \/ TierMiss
    \/ \E name \in ToolNames, arguments \in ClassifierArguments :
            TierCall(name, arguments)
    \/ TierError
    \/ ExecuteTool
    \/ Resolve
    \/ InvConnectOk
    \/ InvConnectFail
    \/ \E content \in Contents : CallToolOk(content)
    \/ CallToolInvalid
    \/ CallToolFail
    \/ ProcessExit

Spec == Init /\ [][Next]_vars

(***************************************************************************)
(* The default-filling step in isolation: every capability name and every  *)
(* raw argument object, through the step once and through it again.  The   *)
(* second pass receives the first pass's output the way arguments arrive:  *)
(* as JSON text.                                                           *)
(***************************************************************************)
NormValues == ArgValues \cup {BuiltinDefaultPath}
NormArguments == {JsonText(o) : o \in Objects(NormKeys, NormValues)} \cup {Malformed}

InitNorm ==
    /\ cfg = <<>>
    /\ env \in EnvValues
    /\ pc = "off"
    /\ caller = "none"
    /\ bi = 0
    /\ toolDefinitions = <<>>
    /\ sessions = {}
    /\ nextId = 1
    /\ curId = 0
    /\ opens = <<>>
    /\ tierIdx = 0
    /\ consulted = <<>>
    /\ warnings = <<>>
    /\ raw = NoCall
    /\ selection = NoSelection
    /\ invBackend = 0
    /\ callCount = 0
    /\ transportCalls = 0
    /\ result = <<>>
    /\ error = "none"
    /\ failedIn = "none"
    /\ exitCode = -1
    /\ listed = <<>>
    /\ aggRuns = 0
    /\ presentedOwner = 0
    /\ response = <<>>
    /\ nWhich \in {"index", "variant"}
    /\ nName \in NormNames
    /\ nRaw \in NormArguments
    /\ nOut1 = EmptyObject
    /\ nOut2 = EmptyObject
    /\ nStage = "raw"

mainVars == <<cfg, env, pc, caller, bi, toolDefinitions, sessions, nextId, curId,
              opens, tierIdx, consulted, warnings, raw, selection, invBackend,
              callCount, transportCalls, result, error, failedIn, exitCode,
              listed, aggRuns, presentedOwner, response>>

\* src/src/index.ts lines 114-126 on the classifier's call.
NormIndex ==
    /\ nWhich = "index"
    /\ nStage = "raw"
    /\ IF ChooseToolArgsThrows(nRaw)
       THEN nStage' = "threw" /\ nOut1' = nOut1
       ELSE /\ nOut1' = ChooseToolArgs(nName, nRaw, ConfiguredDefault(env))
            /\ nStage' = "once"
    /\ UNCHANGED <<mainVars, nWhich, nName, nRaw, nOut2>>

\* The same step on its own output.
NormIndexAgain ==
    /\ nWhich = "index"
    /\ nStage = "once"
    /\ ~ChooseToolArgsThrows(JSONstringify(nOut1))
    /\ nOut2' = ChooseToolArgs(nName, JSONstringify(nOut1), ConfiguredDefault(env))
    /\ nStage' = "twice"
    /\ UNCHANGED <<mainVars, nWhich, nName, nRaw, nOut1>>

\* src/unnamed/part_001 lines 114-144 on the classifier's call.
NormVariant ==
    /\ nWhich = "variant"
    /\ nStage = "raw"
    /\ IF VariantArgsThrows(nName, nRaw)
       THEN nStage' = "threw" /\ nOut1' = nOut1
       ELSE /\ nOut1' = VariantArgs(nName, nRaw)
            /\ nStage' = "once"
    /\ UNCHANGED <<mainVars, nWhich, nName, nRaw, nOut2>>

\* The same step on its own output.
NormVariantAgain ==
    /\ nWhich = "variant"
    /\ nStage = "once"
    /\ ~VariantArgsThrows(nName, JSONstringify(nOut1))
    /\ nOut2' = VariantArgs(nName, JSONstringify(nOut1))
    /\ nStage' = "twice"
    /\ UNCHANGED <<mainVars, nWhich, nName, nRaw, nOut1>>

NextNorm ==
    \/ NormIndex
    \/ NormIndexAgain
    \/ NormVariant
    \/ NormVariantAgain

SpecNorm == InitNorm /\ [][NextNorm]_vars

(***************************************************************************)
(* Properties.                                                             *)
(***************************************************************************)
GetToolDefinitionsRunning == pc \in {"agg_connect", "agg_list", "agg_close"}

\* callMcpTool has returned (main then returns) or an exception left it.
CallMcpToolLeft ==
    \/ pc = "returned"
    \/ pc \in {"failed", "exited"} /\ caller = "callMcpTool"

ChooseToolReturned == selection.name # ""

AllTiersMissed ==
    /\ Len(consulted) = Len(MODEL_CANDIDATES)
    /\ \A i \in 1..Len(consulted) : consulted[i].outcome = "miss"

\* C1: once callMcpTool has returned or thrown, the Session it opened for the
\* capability call is not open.
C1_InvokerClosesSession ==
    CallMcpToolLeft => \A s \in sessions : s.owner # "invoke"

\* C2: once getToolDefinitions has returned or thrown, no Session it opened
\* for a backend is open, also when connect or listTools failed.
C2_AggregationClosesSessions ==
    ~GetToolDefinitionsRunning => \A s \in sessions : s.owner # "aggregate"

\* C3: in one request client.callTool is issued at most once, and after a
\* failure of any stage no capability call and no transport call follows.
C3_AtMostOneCall ==
    /\ [](callCount <= 1)
    /\ [][error # "none" => UNCHANGED <<callCount, transportCalls>>]_vars

C3_Witness == callCount = 1 /\ error # "none" /\ pc = "exited"

\* C4: tiers are consulted in list order, a tier only after every earlier
\* tier was consulted and returned no tool call; once a tier returns a tool
\* call chooseTool is over and no later tier is consulted.
C4_TiersInOrderShortCircuit ==
    /\ Len(consulted) <= Len(MODEL_CANDIDATES)
    /\ \A i \in 1..Len(consulted) :
            /\ consulted[i].tier = i
            /\ consulted[i].model = MODEL_CANDIDATES[i]
    /\ \A i \in 1..(Len(consulted) - 1) : consulted[i].outcome = "miss"
    /\ (consulted # <<>> /\ consulted[Len(consulted)].outcome = "call") => pc # "tier"

C4_Witness ==
    /\ Len(consulted) = 1
    /\ consulted[1].outcome = "call"
    /\ pc = "returned"

\* C5: chooseTool fails with the all-models-failed error exactly when every
\* tier of MODEL_CANDIDATES was consulted and each returned no tool call.
C5_NoTierProducedIffAllMiss ==
    (error = "NoTierProduced") <=> AllTiersMissed

C5_Witness == error = "NoTierProduced" /\ AllTiersMissed

\* C6 as stated: when all tiers miss, chooseTool has opened no Session between
\* its start and its failure.
C6_SelectorOpensNoSession ==
    error = "NoTierProduced" =>
        \A i \in 1..Len(opens) : opens[i].during # "chooseTool"

\* C6 amended: when all tiers miss, the only Sessions chooseTool opened are
\* those of its catalog aggregation, each opened before the first tier was
\* consulted, and none is open when the failure is raised.
C6_OnlyAggregationSessionsBeforeTiers ==
    error = "NoTierProduced" =>
        /\ sessions = {}
        /\ \A i \in 1..Len(opens) :
                opens[i].owner = "aggregate" /\ opens[i].tiers = 0

C6_Witness == error = "NoTierProduced" /\ Len(opens) = Len(cfg) /\ Len(cfg) > 1

\* C7: the variant's default-filling keeps every non-empty value the
\* classifier supplied.
C7_VariantNeverOverrides ==
    (nWhich = "variant" /\ nStage \in {"once", "twice"}) =>
        \A k \in DOMAIN nRaw.obj :
            nRaw.obj[k] # "" => (k \in DOMAIN nOut1 /\ nOut1[k] = nRaw.obj[k])

\* C8: when list_directory is chosen and the classifier's arguments hold no
\* path, the returned arguments hold path = the configured default path.
C8_ListDirectoryGetsDefaultPath ==
    (ChooseToolReturned /\ selection.name = "list_directory"
        /\ "path" \notin DOMAIN raw.arguments.obj) =>
        /\ "path" \in DOMAIN selection.arguments
        /\ selection.arguments["path"] = ConfiguredDefault(env)

\* C9: for a selection of a capability other than list_directory the
\* returned arguments equal the arguments the classifier gave.
C9_DefaultsKeyedByCapability ==
    (ChooseToolReturned /\ selection.name # "list_directory") =>
        selection.arguments = raw.arguments.obj

\* C10: the default-filling step applied to its own output returns that
\* output unchanged, in index.ts and in the variant.
C10_NormalizationIdempotent ==
    nStage = "twice" => nOut2 = nOut1

C10_Witness == nStage = "twice" /\ nOut1 # nRaw.obj /\ nOut2 = nOut1

\* callMcpTool threw in its lookup (lines 143-145), before a backend was resolved.
LookupThrew ==
    /\ pc \in {"failed", "exited"}
    /\ failedIn = "callMcpTool"
    /\ invBackend = 0

\* C11: callMcpTool called with a name absent from the current catalog fails
\* with an UnknownCapability error and has opened no Session.
C11_UnknownCapabilityOpensNoSession ==
    (LookupThrew /\ \A i \in 1..Len(toolDefinitions) :
                        toolDefinitions[i].name # selection.name) =>
        /\ error = "UnknownCapability"
        /\ \A k \in 1..Len(opens) : opens[k].during # "callMcpTool"

\* Number of capabilities the backends before position b listed.
RECURSIVE ListedBefore(_)
ListedBefore(b) ==
    IF b <= 1 THEN 0 ELSE ListedBefore(b - 1) + Len(listed[b - 1].tools)

CatalogReturned == pc \in {"tier", "resolve"}

\* C12: when every listing succeeded the returned catalog has as many
\* entries as the backends listed in total, in backend declaration order and,
\* within a backend, in listing order, each tagged with its backend's key.
C12_CatalogSizeOrderTags ==
    CatalogReturned =>
        /\ Len(listed) = Len(cfg)
        /\ Len(toolDefinitions) = ListedBefore(Len(cfg) + 1)
        /\ \A b \in 1..Len(listed) :
                /\ listed[b].serverKey = cfg[b]
                /\ \A k \in 1..Len(listed[b].tools) :
                        LET d == toolDefinitions[ListedBefore(b) + k]
                        IN  /\ d.name = listed[b].tools[k]
                            /\ d.toolName = listed[b].tools[k]
                            /\ d.serverKey = cfg[b]

C12_Witness ==
    /\ pc = "tier"
    /\ Len(cfg) = 2
    /\ Len(listed[1].tools) = 2
    /\ listed[1].tools[1] # listed[1].tools[2]
    /\ Len(listed[2].tools) >= 1

\* r is t without its leading and trailing whitespace.
IsTrimOf(r, t) ==
    \E a \in 0..Len(t), z \in 0..Len(t) :
        /\ a + z <= Len(t)
        /\ r = SubSeq(t, a + 1, Len(t) - z)
        /\ \A k \in 1..a : t[k] = " "
        /\ \A k \in (Len(t) - z + 1)..Len(t) : t[k] = " "
        /\ r = <<>> \/ (r[1] # " " /\ r[Len(r)] # " ")

TextPositions == {i \in 1..Len(response) : response[i].type = "text"}

\* C13: callMcpTool returns exactly the text-typed segments of the response,
\* in their order, each trimmed; other segments are dropped without an error.
C13_TextSegmentsTrimmedInOrder ==
    pc = "returned" =>
        /\ error = "none"
        /\ Len(result) = Cardinality(TextPositions)
        /\ \A i \in TextPositions :
                IsTrimOf(result[Cardinality({j \in TextPositions : j <= i})],
                         response[i].text)

C13_Witness ==
    /\ pc = "returned"
    /\ Len(response) = 2
    /\ response[1].type = "image"
    /\ response[2].text = <<" ", "a", " ">>
    /\ result = << <<"a">> >>

\* C14: every run of main terminates, with status 0 after printing the result
\* or with status 1 after the first error: no run is left alive with nothing
\* more to do.
C14_RunTerminates ==
    /\ pc = "exited" \/ ENABLED Next
    /\ pc = "exited" => exitCode = (IF error = "none" THEN 0 ELSE 1)

\* C15: a classifier call happens only after the aggregation of chooseTool
\* listed every configured backend; when that aggregation fails on a spawn,
\* handshake or listing, the request fails with no classifier call made.
C15_NoClassifierCallAfterFailedAggregation ==
    /\ pc = "tier" =>
            /\ Len(listed) = Len(cfg)
            /\ \A b \in 1..Len(listed) : listed[b].serverKey = cfg[b]
    /\ consulted # <<>> => aggRuns >= 1
    /\ (error # "none" /\ failedIn = "getToolDefinitions" /\ caller = "chooseTool")
            => consulted = <<>>

C15_Witness ==
    /\ pc = "exited"
    /\ failedIn = "getToolDefinitions"
    /\ caller = "chooseTool"
    /\ Len(listed) = 1
    /\ Len(cfg) = 2
    /\ consulted = <<>>

\* C16: at every instant at most one Session is open per backend, and in an
\* aggregation pass the Session of one backend is closed before the next
\* backend's Session is opened.
C16_OneSessionPerBackend ==
    /\ \A s, t \in sessions : s.backend = t.backend => s.id = t.id
    /\ pc = "agg_connect" => \A s \in sessions : s.owner # "aggregate"

C16_Witness ==
    /\ pc = "call"
    /\ Len(opens) = 5
    /\ Cardinality(sessions) = 1

InvocationStarted == pc \in {"inv_connect", "call", "returned"}

\* C17: in one run of main the aggregation is executed exactly once, before
\* the selection, and the selection is resolved in the catalog the classifier
\* was shown.
C17_AggregatedOnceSameCatalog ==
    /\ aggRuns <= 1
    /\ InvocationStarted => (aggRuns = 1 /\ invBackend = presentedOwner)

\* C18: when tiers 1..k-1 return no tool call and tier k returns one,
\* chooseTool returns tier k's name and its default-filled arguments, with one
\* fallback warning for each of tiers 1..k-1, in order, and no other.
C18_SelectionOfFirstProducingTier ==
    ChooseToolReturned =>
        LET k == Len(consulted)
        IN  /\ k >= 1
            /\ consulted[k].outcome = "call"
            /\ \A i \in 1..(k - 1) : consulted[i].outcome = "miss"
            /\ selection.name = raw.name
            /\ selection.arguments =
                    (IF DOMAIN raw.arguments.obj = {}
                     THEN [a \in {"path"} |-> ConfiguredDefault(env)]
                     ELSE raw.arguments.obj)
            /\ warnings = [i \in 1..(k - 1) |-> MODEL_CANDIDATES[i]]

C18_Witness ==
    /\ ChooseToolReturned
    /\ Len(consulted) = 2
    /\ warnings = <<MODEL_CANDIDATES[1]>>

\* C19: every catalog entry carries a serverKey that is a key of
\* cfg.mcpServers, so the server-configuration-not-found failure of
\* callMcpTool never happens.
C19_ServerKeyResolves ==
    /\ \A i \in 1..Len(toolDefinitions) :
            \E j \in 1..Len(cfg) : cfg[j] = toolDefinitions[i].serverKey
    /\ error # "ServerConfigMissing"

C19_Witness ==
    /\ Len(cfg) = 2
    /\ pc = "inv_connect"
    /\ Len(toolDefinitions) > 1
    /\ invBackend = cfg[2]

\* C20: a name listed by several backends resolves to its first catalog
\* entry, and the invocation Session is opened to that entry's backend only.
C20_FirstEntryWins ==
    /\ pc = "inv_connect" =>
            \E i \in 1..Len(toolDefinitions) :
                /\ toolDefinitions[i].name = selection.name
                /\ toolDefinitions[i].serverKey = invBackend
                /\ \A j \in 1..(i - 1) : toolDefinitions[j].name # selection.name
    /\ \A k \in 1..Len(opens) :
            opens[k].owner = "invoke" => opens[k].backend = invBackend
    /\ Cardinality({k \in 1..Len(opens) : opens[k].owner = "invoke"}) <= 1
    /\ \A s \in sessions : s.owner = "invoke" => s.backend = invBackend

C20_Witness ==
    /\ pc = "inv_connect"
    /\ \E i, j \in 1..Len(toolDefinitions) :
            /\ i < j
            /\ toolDefinitions[i].name = selection.name
            /\ toolDefinitions[j].name = selection.name
            /\ toolDefinitions[i].serverKey # toolDefinitions[j].serverKey
            /\ invBackend = toolDefinitions[i].serverKey

====
